---- MODULE Spec2Model ----
(***************************************************************************)
(* Model of mem0_webhook_server.py: a FastAPI relay that normalises        *)
(* webhook payloads into memory records and submits them to the external   *)
(* Mem0 client.                                                            *)
(*                                                                         *)
(* Python/JSON values are tagged records [t |-> type, v |-> payload];      *)
(* a dict is the sequence of its <<key, value>> pairs in insertion order   *)
(* (Python dicts and parsed JSON objects keep that order, and str() and    *)
(* json.dumps() show it).  Text is a TLA+ string.  JSON floats are not     *)
(* modelled, and the texts used contain no quote, backslash or control     *)
(* character, so that repr() and json.dumps() need no escaping.            *)
(***************************************************************************)
EXTENDS Integers, Sequences, FiniteSets, TLC

VARIABLES
    pc,         \* "idle", "await_add", "await_search", "done": where the handler is
    endpoint,   \* which route is handling the request
    body,       \* the JSON body of the request
    reqs,       \* the request(s) after validation or normalisation, one per memory
    now,        \* the latest reading of datetime.now(), as an index of Instants
    calls,      \* the calls of mem0_client.add made for this request, in order
    outcomes,   \* what the client answered to each call (a return or a raise)
    execs,      \* what create_memory gave its caller for each call
    results,    \* batch: the handler's results list
    errors,     \* batch: the handler's errors list
    response,   \* the HTTP response, once pc = "done"
    verification \* a call of verify_webhook_signature and what it returned

vars == <<pc, endpoint, body, reqs, now, calls, outcomes, execs, results, errors, response,
         verification>>

----------------------------------------------------------------------------
(* Python values *)

VNone == [t |-> "null"]
VStr(s) == [t |-> "str", v |-> s]
VInt(n) == [t |-> "int", v |-> n]
VBool(b) == [t |-> "bool", v |-> b]
VList(xs) == [t |-> "list", v |-> xs]
VDict(kvs) == [t |-> "dict", v |-> kvs]

\* bool(x): what `or`, `if metadata:` and `elif ... and result:` test
Truthy(x) ==
    CASE x.t = "null" -> FALSE
      [] x.t = "bool" -> x.v
      [] x.t = "int" -> x.v # 0
      [] x.t = "str" -> x.v # ""
      [] x.t = "list" -> Len(x.v) > 0
      [] x.t = "dict" -> Len(x.v) > 0

\* a or b
Or(a, b) == IF Truthy(a) THEN a ELSE b

\* type(x).__name__, as it shows in the messages of AttributeError and TypeError
TypeName(x) ==
    CASE x.t = "null" -> "NoneType"
      [] x.t = "bool" -> "bool"
      [] x.t = "int" -> "int"
      [] x.t = "str" -> "str"
      [] x.t = "list" -> "list"
      [] x.t = "dict" -> "dict"

Keys(d) == {d.v[i][1] : i \in 1..Len(d.v)}

\* d.get(k, default)
GetOr(d, k, default) ==
    LET at == {i \in 1..Len(d.v) : d.v[i][1] = k}
    IN IF at = {} THEN default ELSE d.v[CHOOSE i \in at : TRUE][2]

\* d.get(k)
Get(d, k) == GetOr(d, k, VNone)

\* d[k] = v on the pair list: a known key keeps its place, a new one is appended
SetItem(kvs, k, v) ==
    IF \E i \in 1..Len(kvs) : kvs[i][1] = k
    THEN [i \in 1..Len(kvs) |-> IF kvs[i][1] = k THEN <<k, v>> ELSE kvs[i]]
    ELSE Append(kvs, <<k, v>>)

RECURSIVE UpdateItems(_, _)
UpdateItems(kvs, more) ==
    IF more = <<>> THEN kvs
    ELSE UpdateItems(SetItem(kvs, Head(more)[1], Head(more)[2]), Tail(more))

\* a.update(b)
Update(a, b) == VDict(UpdateItems(a.v, b.v))

\* {k: v for k, v in d.items() if k not in excluded}
Without(d, excluded) ==
    LET Keep(kv) == kv[1] \notin excluded IN VDict(SelectSeq(d.v, Keep))

RECURSIVE Join(_, _)
Join(parts, sep) ==
    IF parts = <<>> THEN ""
    ELSE IF Len(parts) = 1 THEN parts[1]
    ELSE parts[1] \o sep \o Join(Tail(parts), sep)

\* str(x) of a parsed JSON value: repr of the elements inside list and dict
RECURSIVE Repr(_)
Repr(x) ==
    CASE x.t = "null" -> "None"
      [] x.t = "bool" -> IF x.v THEN "True" ELSE "False"
      [] x.t = "int" -> ToString(x.v)
      [] x.t = "str" -> "'" \o x.v \o "'"
      [] x.t = "list" ->
            "[" \o Join([i \in 1..Len(x.v) |-> Repr(x.v[i])], ", ") \o "]"
      [] x.t = "dict" ->
            "{" \o Join([i \in 1..Len(x.v) |->
                            "'" \o x.v[i][1] \o "': " \o Repr(x.v[i][2])], ", ") \o "}"

StrOf(x) == IF x.t = "str" THEN x.v ELSE Repr(x)

RECURSIVE Spaces(_)
Spaces(n) == IF n = 0 THEN "" ELSE " " \o Spaces(n - 1)

\* json.dumps(x, indent=step) at nesting depth `level`
RECURSIVE Dumps(_, _, _)
Dumps(x, step, level) ==
    LET inner == Spaces(step * (level + 1))
        close == "\n" \o Spaces(step * level)
    IN CASE x.t = "null" -> "null"
         [] x.t = "bool" -> IF x.v THEN "true" ELSE "false"
         [] x.t = "int" -> ToString(x.v)
         [] x.t = "str" -> "\"" \o x.v \o "\""
         [] x.t = "list" ->
               IF Len(x.v) = 0 THEN "[]"
               ELSE "[\n"
                    \o Join([i \in 1..Len(x.v) |->
                               inner \o Dumps(x.v[i], step, level + 1)], ",\n")
                    \o close \o "]"
         [] x.t = "dict" ->
               IF Len(x.v) = 0 THEN "{}"
               ELSE "{\n"
                    \o Join([i \in 1..Len(x.v) |->
                               inner \o "\"" \o x.v[i][1] \o "\": "
                               \o Dumps(x.v[i][2], step, level + 1)], ",\n")
                    \o close \o "}"

----------------------------------------------------------------------------
(* Configuration: the os.getenv defaults *)

DEFAULT_USER_ID == "quinn_may"
WEBHOOK_SECRET_DEFAULT == "your-webhook-secret-here"

(* datetime.now(): [year, month, day, hour, minute, second, microsecond] *)

RECURSIVE ZeroFill(_, _)
ZeroFill(digits, width) ==
    IF Len(digits) >= width THEN digits ELSE ZeroFill("0" \o digits, width)

\* the decimal digits of n, zero-padded on the left to `width`
Pad(n, width) == ZeroFill(ToString(n), width)

\* strftime("%Y-%m-%d")
FormatDay(t) == Pad(t.year, 4) \o "-" \o Pad(t.month, 2) \o "-" \o Pad(t.day, 2)

\* strftime("%Y-%m")
FormatMonth(t) == Pad(t.year, 4) \o "-" \o Pad(t.month, 2)

\* datetime.isoformat(): the microseconds show only when they are not zero
IsoFormat(t) ==
    FormatDay(t) \o "T" \o Pad(t.hour, 2) \o ":" \o Pad(t.minute, 2) \o ":" \o Pad(t.second, 2)
    \o (IF t.microsecond = 0 THEN "" ELSE "." \o Pad(t.microsecond, 6))

----------------------------------------------------------------------------
(* create_memory *)

Exc(cls, msg) == [cls |-> cls, msg |-> msg]
Returned(v) == [ok |-> TRUE, value |-> v]
Raised(e) == [ok |-> FALSE, exc |-> e]

\* mutant of full_metadata: the derived fields are merged over the caller's metadata
DerivedOverCaller(category, metadata, client, project_type, source, ts) ==
    LET derived == VDict(<<
            <<"category", category>>,
            <<"day", VStr(FormatDay(ts[1]))>>,
            <<"month", VStr(FormatMonth(ts[2]))>>,
            <<"year", VStr(ToString(ts[3].year))>>,
            <<"client", client>>,
            <<"project_type", project_type>>,
            <<"device", VStr("webhook_api")>>,
            <<"timestamp", VStr(IsoFormat(ts[4]))>>,
            <<"source", source>>,
            <<"webhook_received", VStr(IsoFormat(ts[5]))>> >>)
    IN IF Truthy(metadata) THEN Update(metadata, derived) ELSE derived

\* full_metadata: the derived fields, then the caller's metadata over them.
\* ts holds the five readings of datetime.now(), in the order they are taken
full_metadata(category, metadata, client, project_type, source, ts) ==
    LET derived == VDict(<<
            <<"category", category>>,
            <<"day", VStr(FormatDay(ts[1]))>>,
            <<"month", VStr(FormatMonth(ts[2]))>>,
            <<"year", VStr(ToString(ts[3].year))>>,
            <<"client", client>>,
            <<"project_type", project_type>>,
            <<"device", VStr("webhook_api")>>,
            <<"timestamp", VStr(IsoFormat(ts[4]))>>,
            <<"source", source>>,
            <<"webhook_received", VStr(IsoFormat(ts[5]))>> >>)
    IN IF Truthy(metadata) THEN Update(derived, metadata) ELSE derived

\* the arguments of mem0_client.add
AddCall(content, user_id, metadata) ==
    [messages |-> <<[role |-> "user", content |-> content]>>,
     user_id |-> user_id,
     metadata |-> metadata,
     output_format |-> "v1.1"]

PreviewLen == 50

\* x[:50]: text and lists slice, other values raise.  A dict looks the slice
\* up as a key: a slice is unhashable before Python 3.12 (TypeError) and a
\* missing key from 3.12 on (KeyError, whose text is the repr of the key);
\* py312 says which interpreter runs the server
Slice(x, py312) ==
    CASE x.t = "str" ->
            Returned(VStr(SubSeq(x.v, 1, IF Len(x.v) < PreviewLen THEN Len(x.v) ELSE PreviewLen)))
      [] x.t = "list" ->
            Returned(VList(SubSeq(x.v, 1, IF Len(x.v) < PreviewLen THEN Len(x.v) ELSE PreviewLen)))
      [] x.t = "dict" ->
            IF py312 THEN Raised(Exc("KeyError", "slice(None, " \o ToString(PreviewLen) \o ", None)"))
            ELSE Raised(Exc("TypeError", "unhashable type: 'slice'"))
      [] OTHER -> Raised(Exc("TypeError", "'" \o TypeName(x) \o "' object is not subscriptable"))

\* x[0]
First(x) ==
    CASE x.t = "list" ->
            IF Len(x.v) = 0 THEN Raised(Exc("IndexError", "list index out of range"))
            ELSE Returned(x.v[1])
      [] x.t = "str" ->
            IF Len(x.v) = 0 THEN Raised(Exc("IndexError", "string index out of range"))
            ELSE Returned(VStr(SubSeq(x.v, 1, 1)))
      [] x.t = "dict" -> Raised(Exc("KeyError", "0"))
      [] OTHER -> Raised(Exc("TypeError", "'" \o TypeName(x) \o "' object is not subscriptable"))

\* x.get('id')
GetId(x) ==
    IF x.t = "dict" THEN Returned(Get(x, "id"))
    ELSE Raised(Exc("AttributeError", "'" \o TypeName(x) \o "' object has no attribute 'get'"))

\* x[0].get('id')
FirstId(x) == IF First(x).ok THEN GetId(First(x).value) ELSE First(x)

\* the memory id read from the client's result
ExtractId(result) ==
    CASE result.t = "dict" ->
            IF Truthy(Get(result, "id")) THEN Returned(Get(result, "id"))
            ELSE FirstId(GetOr(result, "results", VList(<<VDict(<<>>)>>)))
      [] result.t = "list" /\ Truthy(result) -> FirstId(result)
      [] OTHER -> Returned(VNone)

\* create_memory from the return of mem0_client.add on: the log line, then the id
CreateMemoryAfterAdd(call, result, py312) ==
    LET content == call.messages[1].content IN
    IF ~Slice(content, py312).ok THEN Slice(content, py312)
    ELSE IF ~ExtractId(result).ok THEN ExtractId(result)
    ELSE Returned([success |-> TRUE,
                   memory_id |-> ExtractId(result).value,
                   user_id |-> call.user_id,
                   content |-> content,
                   metadata |-> call.metadata])

\* mutant of CreateMemoryOnRaise: the failure is logged and swallowed
CreateMemorySwallows(e) ==
    Returned([success |-> FALSE, memory_id |-> VNone, user_id |-> VNone,
              content |-> VNone, metadata |-> VDict(<<>>)])

\* create_memory when mem0_client.add raises: logged and raised again
CreateMemoryOnRaise(e) == Raised(e)

\* what create_memory gives its caller for an answer of the client
create_memory(call, outcome, py312) ==
    IF outcome.ok THEN CreateMemoryAfterAdd(call, outcome.value, py312)
    ELSE CreateMemoryOnRaise(outcome.exc)

----------------------------------------------------------------------------
(* The pydantic models.  `lax` says which pydantic is installed: version 1    *)
(* coerces (a number to str, an iterable of pairs to dict), version 2 refuses. *)

Absent == [t |-> "absent"]

\* the release of pydantic 2 that the links in its error texts name
PYDANTIC_DOCS == "2.13"

\* a value given for a field annotated str
StrField(x, lax) ==
    CASE x.t = "str" -> Returned(x)
      [] x.t = "int" /\ lax -> Returned(VStr(ToString(x.v)))
      [] x.t = "bool" /\ lax -> Returned(VStr(IF x.v THEN "True" ELSE "False"))
      [] OTHER -> Raised(Exc("ValidationError", "value is not a valid string"))

\* a field annotated Optional[str] with a default
OptStrField(d, k, default, lax) ==
    IF k \notin Keys(d) THEN Returned(default)
    ELSE IF Get(d, k).t = "null" THEN Returned(VNone)
    ELSE StrField(Get(d, k), lax)

\* whether iter(x) succeeds
Iterable(x) == x.t \in {"list", "str", "dict"}

\* what iterating x gives: elements, characters, keys
Iter(x) ==
    CASE x.t = "list" -> x.v
      [] x.t = "str" -> [i \in 1..Len(x.v) |-> VStr(SubSeq(x.v, i, i))]
      [] x.t = "dict" -> [i \in 1..Len(x.v) |-> VStr(x.v[i][1])]

\* whether hash(x) succeeds
Hashable(x) == x.t \notin {"list", "dict"}

\* a == b for two keys of a dict: True is 1 and False is 0
KeyEq(a, b) ==
    LET Num(k) == IF k.t = "bool" THEN VInt(IF k.v THEN 1 ELSE 0) ELSE k
    IN /\ Num(a).t = Num(b).t
       /\ Num(a).t = "null" \/ Num(a).v = Num(b).v

\* d[k] = v where the keys are any hashable values: an equal key keeps its
\* place and stays as it was first given
SetKey(kvs, k, v) ==
    IF \E i \in 1..Len(kvs) : KeyEq(kvs[i][1], k)
    THEN [i \in 1..Len(kvs) |-> IF KeyEq(kvs[i][1], k) THEN <<kvs[i][1], v>> ELSE kvs[i]]
    ELSE Append(kvs, <<k, v>>)

\* dict(items): element n (counted from 0) must give a hashable key and a value
RECURSIVE PairsOf(_, _, _)
PairsOf(items, n, kvs) ==
    IF n >= Len(items) THEN Returned(kvs)
    ELSE LET e == items[n + 1]
             pair == Iter(e)
         IN IF ~Iterable(e)
            THEN Raised(Exc("TypeError", "cannot convert dictionary update sequence element #"
                                         \o ToString(n) \o " to a sequence"))
            ELSE IF Len(pair) # 2
            THEN Raised(Exc("ValueError", "dictionary update sequence element #" \o ToString(n)
                                          \o " has length " \o ToString(Len(pair))
                                          \o "; 2 is required"))
            ELSE IF ~Hashable(pair[1])
            THEN Raised(Exc("TypeError", "unhashable type: '" \o TypeName(pair[1]) \o "'"))
            ELSE PairsOf(items, n + 1, SetKey(kvs, pair[1], pair[2]))

\* dict(x), as the list of its <<key, value>> pairs; the keys are values
DictOf(x) ==
    IF x.t = "dict" THEN Returned([i \in 1..Len(x.v) |-> <<VStr(x.v[i][1]), x.v[i][2]>>])
    ELSE IF ~Iterable(x)
    THEN Raised(Exc("TypeError", "'" \o TypeName(x) \o "' object is not iterable"))
    ELSE PairsOf(Iter(x), 0, <<>>)

\* pydantic 1 on the keys of a Dict[str, Any]: each key is a str field
RECURSIVE StrKeys(_, _)
StrKeys(kvs, out) ==
    IF kvs = <<>> THEN Returned(VDict(out))
    ELSE LET key == StrField(Head(kvs)[1], TRUE)
         IN IF ~key.ok THEN key
            ELSE StrKeys(Tail(kvs), SetItem(out, key.value.v, Head(kvs)[2]))

\* pydantic 1 on a value for Dict[str, Any], given what dict() made of it
CoercedDict(pairs) ==
    IF pairs.ok THEN StrKeys(pairs.value, <<>>)
    ELSE Raised(Exc("ValidationError", "value is not a valid dict"))

\* a value given for a field annotated Dict[str, Any]
DictField(x, lax) ==
    IF x.t = "dict" THEN Returned(x)
    ELSE IF lax THEN CoercedDict(DictOf(x))
    ELSE Raised(Exc("ValidationError", "value is not a valid dict"))

\* the field metadata: Optional[Dict[str, Any]] = None
MetadataField(d, lax) ==
    IF "metadata" \notin Keys(d) \/ Get(d, "metadata").t = "null" THEN Returned(VNone)
    ELSE DictField(Get(d, "metadata"), lax)

\* cls(**pairs): the keywords must be text
Keywords(pairs) ==
    IF pairs.ok /\ \A i \in 1..Len(pairs.value) : pairs.value[i][1].t = "str"
    THEN Returned(VDict([i \in 1..Len(pairs.value) |->
                            <<pairs.value[i][1].v, pairs.value[i][2]>>]))
    ELSE Raised(Exc("ValidationError", "value is not a valid dict"))

\* the keyword arguments a model class is built from: an object as it is, and
\* with pydantic 1 also dict(x) of another value
KeywordArgs(x, lax) ==
    IF x.t = "dict" THEN Returned(x)
    ELSE IF lax THEN Keywords(DictOf(x))
    ELSE Raised(Exc("ValidationError", "value is not a valid dict"))

\* MemoryWebhookRequest(**kwargs)
MemoryWebhookRequestOf(kwargs, lax) ==
    IF ~kwargs.ok THEN kwargs
    ELSE IF "content" \notin Keys(kwargs.value)
    THEN Raised(Exc("ValidationError", "field required"))
    ELSE LET d == kwargs.value
             content == StrField(Get(d, "content"), lax)
             user_id == OptStrField(d, "user_id", VStr(DEFAULT_USER_ID), lax)
             category == OptStrField(d, "category", VStr("webhook"), lax)
             metadata == MetadataField(d, lax)
             client == OptStrField(d, "client", VStr("webhook"), lax)
             project_type == OptStrField(d, "project_type", VStr("webhook_post"), lax)
             source == OptStrField(d, "source", VStr("webhook"), lax)
             fields == <<content, user_id, category, metadata, client, project_type, source>>
         IN IF \E i \in 1..Len(fields) : ~fields[i].ok
            THEN Raised(Exc("ValidationError", "invalid request"))
            ELSE Returned([content |-> content.value, user_id |-> user_id.value,
                           category |-> category.value, metadata |-> metadata.value,
                           client |-> client.value, project_type |-> project_type.value,
                           source |-> source.value])

\* MemoryWebhookRequest parsed from a JSON value
MemoryWebhookRequest(x, lax) == MemoryWebhookRequestOf(KeywordArgs(x, lax), lax)

\* the requests of a batch, once each entry is parsed
Requests(items) ==
    IF \E i \in 1..Len(items) : ~items[i].ok
    THEN Raised(Exc("ValidationError", "invalid request"))
    ELSE Returned([i \in 1..Len(items) |-> items[i].value])

\* MemoryBatchRequest(**kwargs): the list of its requests
MemoryBatchRequestOf(kwargs, lax) ==
    IF ~kwargs.ok THEN kwargs
    ELSE IF Get(kwargs.value, "memories").t # "list"
    THEN Raised(Exc("ValidationError", "field required"))
    ELSE Requests([i \in 1..Len(Get(kwargs.value, "memories").v) |->
                      MemoryWebhookRequest(Get(kwargs.value, "memories").v[i], lax)])

\* MemoryBatchRequest parsed from a JSON value
MemoryBatchRequest(x, lax) == MemoryBatchRequestOf(KeywordArgs(x, lax), lax)

\* the repr of an input as pydantic 2 shows it: the middle of a long one is cut
Truncated(r) ==
    IF Len(r) > 50 THEN SubSeq(r, 1, 25) \o "..." \o SubSeq(r, Len(r) - 23, Len(r)) ELSE r

\* the lines of str(ValidationError) for a field that was to be a str
StrFieldError(name, x, lax) ==
    name \o "\n  "
    \o (IF lax
        THEN (IF x.t = "null"
              THEN "none is not an allowed value (type=type_error.none.not_allowed)"
              ELSE "str type expected (type=type_error.str)")
        ELSE "Input should be a valid string [type=string_type, input_value="
             \o Truncated(Repr(x)) \o ", input_type=" \o TypeName(x) \o "]"
             \o "\n    For further information visit https://errors.pydantic.dev/"
             \o PYDANTIC_DOCS \o "/v/string_type")

\* MemoryResponse(...): memory_id is Optional[str], user_id is str
MemoryResponse(memory_id, timestamp, user_id, lax) ==
    LET mid == IF memory_id.t = "null" THEN Returned(VNone) ELSE StrField(memory_id, lax)
        uid == StrField(user_id, lax)
        bad == (IF mid.ok THEN <<>> ELSE <<StrFieldError("memory_id", memory_id, lax)>>)
               \o (IF uid.ok THEN <<>> ELSE <<StrFieldError("user_id", user_id, lax)>>)
    IN IF Len(bad) > 0
       THEN Raised(Exc("ValidationError",
                       ToString(Len(bad)) \o " validation error"
                       \o (IF Len(bad) > 1 THEN "s" ELSE "")
                       \o " for MemoryResponse\n" \o Join(bad, "\n")))
       ELSE Returned([success |-> TRUE,
                      message |-> "Memory created successfully",
                      memory_id |-> mid.value,
                      timestamp |-> timestamp,
                      user_id |-> uid.value])

----------------------------------------------------------------------------
(* The handlers *)

\* the classes that derive from BaseException and not from Exception
BaseOnly ==
    {"BaseException", "BaseExceptionGroup", "CancelledError", "GeneratorExit",
     "KeyboardInterrupt", "SystemExit"}

\* except Exception
IsException(e) == e.cls \notin BaseOnly

Ok(content) == [status |-> 200, body |-> content]

\* FastAPI's answer to a body that does not validate; its body, the list of
\* pydantic's errors, is left out
Unprocessable == [status |-> 422]

\* raise HTTPException(status_code=500, detail=str(e))
ErrorResponse(e) == [status |-> 500, detail |-> e.msg]

\* an exception that no except clause catches leaves the handler and the
\* application: no response is built
Unhandled(e) == [status |-> 0, raised |-> e.cls]

\* the call of mem0_client.add that create_memory makes for a request
SubmitCall(req, ts) ==
    AddCall(req.content, req.user_id,
            full_metadata(req.category, req.metadata, req.client, req.project_type,
                         req.source, ts))

\* webhook_memory_endpoint, once create_memory has returned or raised
MemoryEndpointResponse(req, exec, t, lax) ==
    IF exec.ok
    THEN LET m == MemoryResponse(exec.value.memory_id, IsoFormat(t), req.user_id, lax)
         IN IF m.ok THEN Ok(m.value) ELSE ErrorResponse(m.exc)
    ELSE IF IsException(exec.exc) THEN ErrorResponse(exec.exc) ELSE Unhandled(exec.exc)

ZapierConsumed == {"content", "message", "text", "user_id", "userId", "category"}

\* mutant of ZapierRequest: message is tried before content
ZapierMessageFirst(b) ==
    IF b.t # "dict"
    THEN Raised(Exc("AttributeError", "'" \o TypeName(b) \o "' object has no attribute 'get'"))
    ELSE Returned([
        content |-> Or(Get(b, "message"), Or(Get(b, "content"),
                       Or(Get(b, "text"), VStr(StrOf(b))))),
        user_id |-> Or(Get(b, "user_id"), Or(Get(b, "userId"), VStr(DEFAULT_USER_ID))),
        category |-> Or(Get(b, "category"), VStr("zapier")),
        metadata |-> Without(b, ZapierConsumed),
        client |-> VStr("zapier"),
        project_type |-> VStr("automation"),
        source |-> VStr("zapier_webhook")])

\* zapier_webhook up to the call of create_memory
ZapierRequest(b) ==
    IF b.t # "dict"
    THEN Raised(Exc("AttributeError", "'" \o TypeName(b) \o "' object has no attribute 'get'"))
    ELSE Returned([
        content |-> Or(Get(b, "content"), Or(Get(b, "message"),
                       Or(Get(b, "text"), VStr(StrOf(b))))),
        user_id |-> Or(Get(b, "user_id"), Or(Get(b, "userId"), VStr(DEFAULT_USER_ID))),
        category |-> Or(Get(b, "category"), VStr("zapier")),
        metadata |-> Without(b, ZapierConsumed),
        client |-> VStr("zapier"),
        project_type |-> VStr("automation"),
        source |-> VStr("zapier_webhook")])

\* generic_webhook up to the call of create_memory
GenericRequest(b) ==
    IF b.t # "dict"
    THEN Raised(Exc("AttributeError", "'" \o TypeName(b) \o "' object has no attribute 'get'"))
    ELSE Returned([
        content |-> VStr("Webhook data received: " \o Dumps(b, 2, 0)),
        user_id |-> Or(Get(b, "user_id"), Or(Get(b, "userId"), Or(Get(b, "user"),
                       Or(Get(b, "email"), VStr(DEFAULT_USER_ID))))),
        category |-> VStr("generic_webhook"),
        metadata |-> VDict(<< <<"raw_payload", b>> >>),
        client |-> VStr("generic"),
        project_type |-> VStr("webhook"),
        source |-> VStr("generic_webhook")])

\* zapier_webhook and generic_webhook, once create_memory has returned or raised
FlexibleResponse(message, exec, t) ==
    IF exec.ok
    THEN Ok([success |-> TRUE, message |-> message,
             memory_id |-> exec.value.memory_id, timestamp |-> IsoFormat(t)])
    ELSE IF IsException(exec.exc) THEN ErrorResponse(exec.exc) ELSE Unhandled(exec.exc)

\* memory_req.content[:50]: the content of a validated request is text
Preview(content) == Slice(content, TRUE).value

\* the batch loop's results list after one entry
BatchResults(res, exec) == IF exec.ok THEN Append(res, exec.value) ELSE res

\* the batch loop's errors list after one entry
BatchErrors(errs, req, exec) ==
    IF exec.ok THEN errs
    ELSE Append(errs, [content |-> Preview(req.content), error |-> exec.exc.msg])

\* mutant of BatchContinues: the loop stops at the first failure
BatchStopsOnFailure(i, n, exec) == i < n /\ exec.ok

\* whether the batch loop goes on to the entry after entry i
BatchContinues(i, n, exec) == i < n

\* the return of webhook_batch_memories
BatchResponse(res, errs, t) ==
    Ok([success |-> Len(errs) = 0,
        created |-> Len(res),
        failed |-> Len(errs),
        results |-> res,
        errors |-> IF Len(errs) > 0 THEN VList(errs) ELSE VNone,
        timestamp |-> IsoFormat(t)])

\* mutant of HealthCatches: except Exception
HealthCatchesException(e) == e.cls \notin BaseOnly

\* whether health_check's except clause catches e (a bare except)
HealthCatches(e) == TRUE

\* health_check, once mem0_client.search has returned or raised
HealthResponse(outcome, t) ==
    IF ~outcome.ok /\ ~HealthCatches(outcome.exc) THEN Unhandled(outcome.exc)
    ELSE Ok([status |-> IF outcome.ok THEN "healthy" ELSE "degraded",
             timestamp |-> IsoFormat(t),
             mem0_connected |-> outcome.ok,
             webhook_ready |-> TRUE])

----------------------------------------------------------------------------
(* SHA-256 and HMAC (hashlib.sha256, hmac.new), on bytes.  A 32-bit word is   *)
(* the pair <<high half, low half>> of its 16-bit halves.                    *)

RECURSIVE XorBits(_, _)
\* a ^ b, bit by bit
XorBits(a, b) ==
    IF a = 0 THEN b
    ELSE IF b = 0 THEN a
    ELSE ((a + b) % 2) + 2 * XorBits(a \div 2, b \div 2)

RECURSIVE AndBits(_, _)
\* a & b, bit by bit
AndBits(a, b) ==
    IF a = 0 \/ b = 0 THEN 0
    ELSE ((a % 2) * (b % 2)) + 2 * AndBits(a \div 2, b \div 2)

\* a ^ b and a & b on 4-bit numbers, tabulated
XorNibble == [a \in 0..15 |-> [b \in 0..15 |-> XorBits(a, b)]]
AndNibble == [a \in 0..15 |-> [b \in 0..15 |-> AndBits(a, b)]]

\* a ^ b on 16-bit numbers
Xor16(a, b) ==
    XorNibble[a % 16][b % 16]
    + 16 * XorNibble[(a \div 16) % 16][(b \div 16) % 16]
    + 256 * XorNibble[(a \div 256) % 16][(b \div 256) % 16]
    + 4096 * XorNibble[a \div 4096][b \div 4096]

\* a & b on 16-bit numbers
And16(a, b) ==
    AndNibble[a % 16][b % 16]
    + 16 * AndNibble[(a \div 16) % 16][(b \div 16) % 16]
    + 256 * AndNibble[(a \div 256) % 16][(b \div 256) % 16]
    + 4096 * AndNibble[a \div 4096][b \div 4096]

WXor(x, y) == <<Xor16(x[1], y[1]), Xor16(x[2], y[2])>>
WAnd(x, y) == <<And16(x[1], y[1]), And16(x[2], y[2])>>
WNot(x) == <<65535 - x[1], 65535 - x[2]>>

\* (x + y) mod 2^32
WAdd(x, y) ==
    <<(x[1] + y[1] + ((x[2] + y[2]) \div 65536)) % 65536, (x[2] + y[2]) % 65536>>

\* x rotated right by n bits, 0 < n < 32
RotR(x, n) ==
    LET y == IF n >= 16 THEN <<x[2], x[1]>> ELSE x
        p == 2 ^ (n % 16)
        q == 2 ^ (16 - (n % 16))
    IN <<(y[1] \div p) + (y[2] % p) * q, (y[2] \div p) + (y[1] % p) * q>> 

\* x shifted right by n bits, 0 < n < 16
ShR(x, n) ==
    LET p == 2 ^ n
        q == 2 ^ (16 - n)
    IN <<x[1] \div p, (x[2] \div p) + (x[1] % p) * q>>

\* the round constants
ShaK ==
    << <<17034, 12184>>, <<28983, 17553>>, <<46528, 64463>>, <<59829, 56229>>,
       <<14678, 49755>>, <<23025, 4593>>, <<37439, 33444>>, <<43804, 24277>>,
       <<55303, 43672>>, <<4739, 23297>>, <<9265, 34238>>, <<21772, 32195>>,
       <<29374, 23924>>, <<32990, 45566>>, <<39900, 1703>>, <<49563, 61812>>,
       <<58523, 27073>>, <<61374, 18310>>, <<4033, 40390>>, <<9228, 41420>>,
       <<11753, 11375>>, <<19060, 33962>>, <<23728, 43484>>, <<30457, 35034>>,
       <<38974, 20818>>, <<43057, 50797>>, <<45059, 10184>>, <<48985, 32711>>,
       <<50912, 3059>>, <<54695, 37191>>, <<1738, 25425>>, <<5161, 10599>>,
       <<10167, 2693>>, <<11803, 8504>>, <<19756, 28156>>, <<21304, 3347>>,
       <<25866, 29524>>, <<30314, 2747>>, <<33218, 51502>>, <<37490, 11397>>,
       <<41663, 59553>>, <<43034, 26187>>, <<49739, 35696>>, <<51052, 20899>>,
       <<53650, 59417>>, <<54937, 1572>>, <<62478, 13701>>, <<4202, 41072>>,
       <<6564, 49430>>, <<7735, 27656>>, <<10056, 30540>>, <<13488, 48309>>,
       <<14620, 3251>>, <<20184, 43594>>, <<23452, 51791>>, <<26670, 28659>>,
       <<29839, 33518>>, <<30885, 25455>>, <<33992, 30740>>, <<36039, 520>>,
       <<37054, 65530>>, <<42064, 27883>>, <<48889, 41975>>, <<50801, 30962>> >>

\* the initial hash value
ShaH0 ==
    << <<27145, 58983>>, <<47975, 44677>>, <<15470, 62322>>, <<42319, 62778>>,
       <<20750, 21119>>, <<39685, 26764>>, <<8067, 55723>>, <<23520, 52505>> >>

SmallSigma0(x) == WXor(WXor(RotR(x, 7), RotR(x, 18)), ShR(x, 3))
SmallSigma1(x) == WXor(WXor(RotR(x, 17), RotR(x, 19)), ShR(x, 10))
BigSigma0(x) == WXor(WXor(RotR(x, 2), RotR(x, 13)), RotR(x, 22))
BigSigma1(x) == WXor(WXor(RotR(x, 6), RotR(x, 11)), RotR(x, 25))
Ch(x, y, z) == WXor(WAnd(x, y), WAnd(WNot(x), z))
Maj(x, y, z) == WXor(WXor(WAnd(x, y), WAnd(x, z)), WAnd(y, z))

RECURSIVE Schedule(_)
\* the message schedule, grown from the 16 words of a block to 64 words
Schedule(w) ==
    IF Len(w) = 64 THEN w
    ELSE LET t == Len(w) + 1
         IN Schedule(Append(w, WAdd(WAdd(SmallSigma1(w[t - 2]), w[t - 7]),
                                      WAdd(SmallSigma0(w[t - 15]), w[t - 16]))))

\* one round on the working variables s = <<a, b, c, d, e, f, g, h>>
Round(s, k, w) ==
    LET t1 == WAdd(WAdd(WAdd(s[8], BigSigma1(s[5])), WAdd(Ch(s[5], s[6], s[7]), k)), w)
        t2 == WAdd(BigSigma0(s[1]), Maj(s[1], s[2], s[3]))
    IN <<WAdd(t1, t2), s[1], s[2], s[3], WAdd(s[4], t1), s[5], s[6], s[7]>>

RECURSIVE Rounds(_, _, _)
\* the rounds from t on, on the eight working variables s
Rounds(s, w, t) ==
    IF Len(s) # 8 \/ t > 64 THEN s ELSE Rounds(Round(s, ShaK[t], w[t]), w, t + 1)

\* the 16 big-endian words of the 64-byte block that starts after `from` bytes
BlockWords(bytes, from) ==
    [i \in 1..16 |-> <<bytes[from + 4 * i - 3] * 256 + bytes[from + 4 * i - 2],
                       bytes[from + 4 * i - 1] * 256 + bytes[from + 4 * i]>>]

\* the hash value h after the block of words
Compress(h, words) ==
    LET s == Rounds(h, Schedule(words), 1)
    IN [i \in 1..8 |-> WAdd(h[i], s[i])]

RECURSIVE Zeros(_)
Zeros(n) == IF n = 0 THEN <<>> ELSE <<0>> \o Zeros(n - 1)

\* the message, the byte 0x80, zeros up to 8 short of a whole block, and the
\* length in bits as 8 bytes (messages here are shorter than 8192 bytes)
ShaPadded(bytes) ==
    bytes \o <<128>> \o Zeros((119 - Len(bytes)) % 64)
    \o Zeros(6) \o <<(Len(bytes) * 8) \div 256, (Len(bytes) * 8) % 256>>

RECURSIVE ShaBlocks(_, _, _)
ShaBlocks(h, padded, from) ==
    IF from >= Len(padded) THEN h
    ELSE ShaBlocks(Compress(h, BlockWords(padded, from)), padded, from + 64)

WordBytes(x) == <<x[1] \div 256, x[1] % 256, x[2] \div 256, x[2] % 256>>

\* hashlib.sha256(bytes).digest()
Sha256(bytes) ==
    LET h == ShaBlocks(ShaH0, ShaPadded(bytes), 0)
    IN WordBytes(h[1]) \o WordBytes(h[2]) \o WordBytes(h[3]) \o WordBytes(h[4])
       \o WordBytes(h[5]) \o WordBytes(h[6]) \o WordBytes(h[7]) \o WordBytes(h[8])

\* the key as HMAC uses it: hashed when longer than a block, then zero-filled
HmacKey(key) ==
    LET k == IF Len(key) > 64 THEN Sha256(key) ELSE key
    IN k \o Zeros(64 - Len(k))

XorBytes(bytes, b) == [i \in 1..Len(bytes) |-> Xor16(bytes[i], b)]

\* hmac.new(key, msg, hashlib.sha256).digest()
HmacSha256(key, msg) ==
    Sha256(XorBytes(HmacKey(key), 92) \o Sha256(XorBytes(HmacKey(key), 54) \o msg))

HexDigits == <<"0", "1", "2", "3", "4", "5", "6", "7", "8", "9", "a", "b", "c", "d", "e", "f">>

RECURSIVE Hex(_)
\* bytes.hex()
Hex(bytes) ==
    IF bytes = <<>> THEN ""
    ELSE HexDigits[(Head(bytes) \div 16) + 1] \o HexDigits[(Head(bytes) % 16) + 1] \o Hex(Tail(bytes))

Lower == "abcdefghijklmnopqrstuvwxyz"
Upper == "ABCDEFGHIJKLMNOPQRSTUVWXYZ"
Digits == "0123456789"

Contains(s, c) == \E i \in 1..Len(s) : SubSeq(s, i, i) = c
IndexIn(s, c) == CHOOSE i \in 1..Len(s) : SubSeq(s, i, i) = c

\* ord(c), for the ASCII letters, digits and hyphen that texts are made of here
Ord(c) ==
    CASE Contains(Lower, c) -> 96 + IndexIn(Lower, c)
      [] Contains(Upper, c) -> 64 + IndexIn(Upper, c)
      [] Contains(Digits, c) -> 47 + IndexIn(Digits, c)
      [] c = "-" -> 45

\* s.encode() of an ASCII text
Encode(s) == [i \in 1..Len(s) |-> Ord(SubSeq(s, i, i))]

----------------------------------------------------------------------------
(* verify_webhook_signature *)

\* hmac.compare_digest(a, b) on ASCII texts
CompareDigest(a, b) == a = b

\* mutant of verify_webhook_signature: only the empty secret skips the check
VerifySkipsOnlyEmptySecret(payload, signature, secret) ==
    IF secret = "" THEN TRUE
    ELSE CompareDigest(signature, Hex(HmacSha256(Encode(secret), payload)))

\* whether the signature is the HMAC-SHA256 hex digest of the payload, or no secret is set
verify_webhook_signature(payload, signature, secret) ==
    IF secret = "" \/ secret = WEBHOOK_SECRET_DEFAULT THEN TRUE
    ELSE CompareDigest(signature, Hex(HmacSha256(Encode(secret), payload)))

----------------------------------------------------------------------------
(* The inputs: request bodies, answers of the client, readings of the clock *)

MaxBatch == 2

RECURSIVE Repeat(_, _)
Repeat(s, n) == IF n = 0 THEN "" ELSE s \o Repeat(s, n - 1)

\* a text longer than the preview
LongText == Repeat("abcdefghij", 6)

\* the pair list of a key that may be absent from a JSON object
Opt(k, x) == IF x.t = "absent" THEN <<>> ELSE << <<k, x>> >>

\* the instants the clock may show, in order: the last microsecond of a year and
\* the midnight after it
Instants ==
    << [year |-> 2025, month |-> 12, day |-> 31, hour |-> 23, minute |-> 59, second |-> 59,
        microsecond |-> 999999],
       [year |-> 2026, month |-> 1, day |-> 1, hour |-> 0, minute |-> 0, second |-> 0,
        microsecond |-> 0] >>

\* what n successive calls of datetime.now() may read after the reading `from`:
\* every call reads the clock anew, and the clock does not run backwards
RECURSIVE Readings(_, _)
Readings(from, n) ==
    IF n = 0 THEN {<<>>}
    ELSE UNION { {<<i>> \o r : r \in Readings(i, n - 1)} : i \in from..Len(Instants) }

\* the instants of a sequence of readings
At(r) == [k \in 1..Len(r) |-> Instants[r[k]]]

MetadataChoices ==
    { Absent,
      VDict(<<>>),
      VDict(<< <<"course", VStr("python-101")>>, <<"lesson", VInt(5)>> >>),
      VDict(<< <<"source", VStr("mine")>>, <<"day", VStr("someday")>>, <<"k", VInt(1)>> >>),
      VList(<<>>),
      VList(<< VList(<<VInt(1), VStr("x")>>), VList(<<VBool(TRUE), VStr("y")>>),
               VStr("ab") >>) }

\* category, client, project_type, source: all left out, or all given
LabelChoices ==
    { <<>>,
      << <<"category", VStr("work")>>, <<"client", VStr("app")>>,
         <<"project_type", VNone>>, <<"source", VStr("import")>> >> }

MemoryBodies ==
    { VDict(Opt("content", c) \o Opt("user_id", u) \o labels \o Opt("metadata", m)) :
        c \in {Absent, VStr(""), VStr("hi"), VStr(LongText), VInt(5)},
        u \in {Absent, VNone, VStr("u1")},
        labels \in LabelChoices,
        m \in MetadataChoices }
    \cup { VList(<<>>),
           VList(<< VList(<<VStr("content"), VStr("x")>>) >>),
           VList(<< VList(<<VInt(1), VStr("x")>>) >>) }

\* the valid entries that batches are made of
BatchPool ==
    << VDict(<< <<"content", VStr("first")>> >>),
       VDict(<< <<"content", VStr(LongText)>>, <<"user_id", VStr("u1")>>,
                <<"metadata", VDict(<< <<"source", VStr("mine")>> >>)>> >>),
       VDict(<< <<"content", VStr("")>>, <<"user_id", VNone>>,
                <<"category", VStr("work")>> >>) >>

\* n entries of the pool, taken in a circle from the k-th on
Cycle(k, n) == [i \in 1..n |-> BatchPool[((k + i - 2) % Len(BatchPool)) + 1]]

BatchBodies ==
    { VDict(<< <<"memories", VList(Cycle(k, n))>> >>) :
        k \in 1..Len(BatchPool), n \in 0..MaxBatch }
    \cup { VDict(<<>>),
           VDict(<< <<"memories", VList(<< BatchPool[1],
                                          VDict(<< <<"user_id", VStr("u1")>> >>) >>)>> >>) }

\* bodies that are valid JSON and no object
NonObjects == {VList(<<VInt(1)>>), VList(<<>>), VStr("plain"), VInt(7), VBool(TRUE), VNone}

ZapierBodies ==
    { VDict(Opt("content", c) \o Opt("message", m) \o Opt("text", x) \o Opt("user_id", u)
            \o Opt("userId", w) \o Opt("category", g) \o Opt("extra", e)) :
        c \in {Absent, VStr(""), VStr("c1"), VInt(5), VDict(<< <<"a", VInt(1)>> >>)},
        m \in {Absent, VStr("hi")},
        x \in {Absent, VStr("t1")},
        u \in {Absent, VStr("u0"), VNone},
        w \in {Absent, VStr("u1")},
        g \in {Absent, VStr("notes"), VStr("")},
        e \in {Absent, VInt(1)} }
    \cup NonObjects

GenericBodies ==
    { VDict(Opt("foo", f) \o Opt("user_id", u) \o Opt("userId", w) \o Opt("user", x)
            \o Opt("email", m)) :
        f \in {Absent, VStr("bar"), VList(<<VInt(1), VDict(<<>>)>>)},
        u \in {Absent, VStr("u0")},
        w \in {Absent, VStr("u1")},
        x \in {Absent, VDict(<< <<"name", VStr("ann")>> >>)},
        m \in {Absent, VStr("a@b.c")} }
    \cup NonObjects

\* what mem0_client.add may return
ClientResults ==
    { VDict(<< <<"id", VStr("m1")>> >>),
      VDict(<< <<"results", VList(<< VDict(<< <<"id", VStr("m2")>> >>) >>)>> >>),
      VList(<< VDict(<< <<"id", VStr("m3")>> >>) >>),
      VDict(<<>>),
      VDict(<< <<"results", VList(<<>>)>> >>),
      VList(<<>>),
      VStr("ok"),
      VDict(<< <<"id", VInt(7)>> >>) }

\* what an awaited call of the client may raise: failures of the client, and
\* what reaches the handler at the await (the request's task is cancelled, the
\* interpreter is interrupted or exits)
ClientErrors ==
    { Exc("ConnectionError", "network unreachable"),
      Exc("ValueError", "rejected by the API"),
      Exc("CancelledError", ""),
      Exc("KeyboardInterrupt", ""),
      Exc("SystemExit", ""),
      Exc("GeneratorExit", ""),
      Exc("BaseException", "") }

\* what mem0_client.search may return and raise
SearchResults == { VList(<<>>), VDict(<< <<"results", VList(<<>>)>> >>) }
ProbeErrors == ClientErrors

\* the secrets: none, the placeholder that stands for none, a short one and one
\* longer than a SHA-256 block
Secrets == {"", WEBHOOK_SECRET_DEFAULT, "k1", Repeat("abcdefghij", 7)}

\* the request bodies that are signed
Payloads == {<<>>, Encode("hi"), Encode(LongText)}

\* the signatures offered: the hex digests that Python's hmac gives for the
\* secrets and payloads above, and texts that are no digest of any of them
Signatures ==
    { "e6f06a89ac679df9f3f5774369cac0d555f1963cf3b15c4b7fbf4f7e2c428a91",
      "2c8f42b363195f5d1d20414f90ca19211e441d47ea441fb300bef4191c7a2cba",
      "419a9713dbdb7c094091dcbb02d86d6f4f0435f33b785445cfdda364a7cf49fb",
      "fa6e56c4f53be964525dc0d89eb7f2c0b9ce3cecf358c9bb9931d444826a1767",
      "4fc885b94f71f800177bb3d3d0e356fb772fda64785e6bebb6657bc7bfb4ca5c",
      "ab7f439bc444600d24fb853de9b0ac119e56b0de03e1e6717931b8253fe2cfde",
      "",
      "deadbeef",
      "2C8F42B363195F5D1D20414F90CA19211E441D47EA441FB300BEF4191C7A2CBA",
      "2c8f42b363195f5d1d20414f90ca19211e441d47ea441fb300bef4191c7a2cb" }

NoVerification == [called |-> FALSE]

----------------------------------------------------------------------------
(* The state machine: one request, from its arrival to its response *)

Init ==
    /\ pc = "idle"
    /\ endpoint = "none"
    /\ body = VNone
    /\ reqs = <<>>
    /\ now \in 1..Len(Instants)
    /\ calls = <<>>
    /\ outcomes = <<>>
    /\ execs = <<>>
    /\ results = <<>>
    /\ errors = <<>>
    /\ response = [status |-> 0]
    /\ verification = NoVerification

\* the request is answered without a call of the client; t is the latest
\* reading of the clock
Answer(ep, b, r, t) ==
    /\ pc' = "done"
    /\ endpoint' = ep
    /\ body' = b
    /\ response' = r
    /\ now' = t
    /\ UNCHANGED <<reqs, calls, outcomes, execs, results, errors, verification>>

\* the handler calls create_memory for its first request and awaits the client
Submit(ep, b, rs) ==
    \E r \in Readings(now, 5) :
        /\ pc' = "await_add"
        /\ endpoint' = ep
        /\ body' = b
        /\ reqs' = rs
        /\ calls' = <<SubmitCall(rs[1], At(r))>>
        /\ now' = r[5]
        /\ UNCHANGED <<outcomes, execs, results, errors, response, verification>>

\* POST /webhook/memory
webhook_memory_endpoint(b) ==
    /\ pc = "idle"
    /\ \E lax \in BOOLEAN :
         LET r == MemoryWebhookRequest(b, lax)
         IN IF r.ok THEN Submit("memory", b, <<r.value>>)
            ELSE Answer("memory", b, Unprocessable, now)

\* POST /webhook/memories/batch
webhook_batch_memories(b) ==
    /\ pc = "idle"
    /\ \E lax \in BOOLEAN :
         LET r == MemoryBatchRequest(b, lax)
         IN IF ~r.ok THEN Answer("batch", b, Unprocessable, now)
            ELSE IF Len(r.value) = 0
                 THEN \E t \in now..Len(Instants) :
                          Answer("batch", b, BatchResponse(<<>>, <<>>, Instants[t]), t)
                 ELSE Submit("batch", b, r.value)

\* POST /webhook/zapier
zapier_webhook(b) ==
    /\ pc = "idle"
    /\ LET r == ZapierRequest(b)
       IN IF r.ok THEN Submit("zapier", b, <<r.value>>)
          ELSE Answer("zapier", b, ErrorResponse(r.exc), now)

\* POST /webhook/generic
generic_webhook(b) ==
    /\ pc = "idle"
    /\ LET r == GenericRequest(b)
       IN IF r.ok THEN Submit("generic", b, <<r.value>>)
          ELSE Answer("generic", b, ErrorResponse(r.exc), now)

\* GET /health: the probe is sent
health_check ==
    /\ pc = "idle"
    /\ pc' = "await_search"
    /\ endpoint' = "health"
    /\ UNCHANGED <<body, reqs, now, calls, outcomes, execs, results, errors, response, verification>>

\* the handler goes on once mem0_client.add has answered its latest call
AfterAdd(outcome, lax, py312) ==
    LET i == Len(calls)
        req == reqs[i]
        exec == create_memory(calls[i], outcome, py312)
        res == BatchResults(results, exec)
        errs == BatchErrors(errors, req, exec)
    IN /\ outcomes' = Append(outcomes, outcome)
       /\ execs' = Append(execs, exec)
       /\ UNCHANGED <<endpoint, body, reqs, verification>>
       /\ CASE endpoint = "batch" /\ ~exec.ok /\ ~IsException(exec.exc) ->
                 /\ pc' = "done"
                 /\ response' = Unhandled(exec.exc)
                 /\ UNCHANGED <<now, calls, results, errors>>
            [] endpoint = "batch" /\ (exec.ok \/ IsException(exec.exc)) ->
                 /\ results' = res
                 /\ errors' = errs
                 /\ IF BatchContinues(i, Len(reqs), exec)
                    THEN \E r \in Readings(now, 5) :
                            /\ pc' = "await_add"
                            /\ calls' = Append(calls, SubmitCall(reqs[i + 1], At(r)))
                            /\ now' = r[5]
                            /\ UNCHANGED response
                    ELSE \E t \in now..Len(Instants) :
                            /\ pc' = "done"
                            /\ response' = BatchResponse(res, errs, Instants[t])
                            /\ now' = t
                            /\ UNCHANGED calls
            [] endpoint = "memory" ->
                 \E t \in now..Len(Instants) :
                    /\ pc' = "done"
                    /\ response' = MemoryEndpointResponse(req, exec, Instants[t], lax)
                    /\ now' = IF exec.ok THEN t ELSE now
                    /\ UNCHANGED <<calls, results, errors>>
            [] endpoint = "zapier" ->
                 \E t \in now..Len(Instants) :
                    /\ pc' = "done"
                    /\ response' = FlexibleResponse("Memory created via Zapier", exec,
                                                    Instants[t])
                    /\ now' = IF exec.ok THEN t ELSE now
                    /\ UNCHANGED <<calls, results, errors>>
            [] endpoint = "generic" ->
                 \E t \in now..Len(Instants) :
                    /\ pc' = "done"
                    /\ response' = FlexibleResponse("Data stored as memory", exec,
                                                    Instants[t])
                    /\ now' = IF exec.ok THEN t ELSE now
                    /\ UNCHANGED <<calls, results, errors>>

\* mem0_client.add returns
AddReturns(r) ==
    /\ pc = "await_add"
    /\ \E lax \in BOOLEAN, py312 \in BOOLEAN : AfterAdd(Returned(r), lax, py312)

\* mem0_client.add raises
AddRaises(e) ==
    /\ pc = "await_add"
    /\ AfterAdd(Raised(e), FALSE, FALSE)

\* health_check goes on once mem0_client.search has answered
AfterSearch(outcome) ==
    \E t \in now..Len(Instants) :
        /\ pc' = "done"
        /\ outcomes' = <<outcome>>
        /\ response' = HealthResponse(outcome, Instants[t])
        /\ now' = IF ~outcome.ok /\ ~HealthCatches(outcome.exc) THEN now ELSE t
        /\ UNCHANGED <<endpoint, body, reqs, calls, execs, results, errors, verification>>

\* mem0_client.search returns
SearchReturns(r) ==
    /\ pc = "await_search"
    /\ AfterSearch(Returned(r))

\* mem0_client.search raises
SearchRaises(e) ==
    /\ pc = "await_search"
    /\ AfterSearch(Raised(e))

Next ==
    \/ \E b \in MemoryBodies : webhook_memory_endpoint(b)
    \/ \E b \in BatchBodies : webhook_batch_memories(b)
    \/ \E b \in ZapierBodies : zapier_webhook(b)
    \/ \E b \in GenericBodies : generic_webhook(b)
    \/ health_check
    \/ \E r \in ClientResults : AddReturns(r)
    \/ \E e \in ClientErrors : AddRaises(e)
    \/ \E r \in SearchResults : SearchReturns(r)
    \/ \E e \in ProbeErrors : SearchRaises(e)

Spec == Init /\ [][Next]_vars

\* a call of verify_webhook_signature (no handler makes one)
Verify(payload, signature, secret) ==
    /\ pc = "idle"
    /\ verification = NoVerification
    /\ verification' = [called |-> TRUE, payload |-> payload, signature |-> signature,
                        secret |-> secret,
                        verified |-> verify_webhook_signature(payload, signature, secret)]
    /\ UNCHANGED <<pc, endpoint, body, reqs, now, calls, outcomes, execs, results, errors,
                   response>>

InitSig == Init /\ now = 1

NextSig == \E p \in Payloads, g \in Signatures, k \in Secrets : Verify(p, g, k)

\* the signature check on its own
SpecSig == InitSig /\ [][NextSig]_vars

----------------------------------------------------------------------------
(* The claims *)

Min(a, b) == IF a < b THEN a ELSE b

\* the entries of a batch body, as sent
Entries == Get(body, "memories").v

\* entry i of the batch paired with what create_memory gave for it
Attempt(i) == [content |-> Get(Entries[i], "content").v, exec |-> execs[i]]
Attempts == [i \in 1..Len(execs) |-> Attempt(i)]
Succeeded(a) == a.exec.ok
Failed(a) == ~a.exec.ok

ExpectedResults ==
    [j \in 1..Len(SelectSeq(Attempts, Succeeded)) |-> SelectSeq(Attempts, Succeeded)[j].exec.value]

ExpectedErrors ==
    [j \in 1..Len(SelectSeq(Attempts, Failed)) |->
        [content |-> VStr(SubSeq(SelectSeq(Attempts, Failed)[j].content, 1,
                                 Min(50, Len(SelectSeq(Attempts, Failed)[j].content)))),
         error |-> SelectSeq(Attempts, Failed)[j].exec.exc.msg]]

BatchAccepted == endpoint = "batch" /\ (pc = "await_add" \/ (pc = "done" /\ response.status # 422))

\* a failure of the client that `except Exception` does not catch
Uncaught(o) == ~o.ok /\ o.exc.cls \in BaseOnly

\* the request ended at an await with a failure that no clause caught
Aborted == \E i \in 1..Len(outcomes) : Uncaught(outcomes[i])

\* C1 as stated: a batch submits its entries one at a time in input order, each
\* exactly once and whatever failed before; the response is never an error,
\* results holds the returns of create_memory for the entries that succeeded, in
\* input order, errors holds the entries that failed, in input order, each with
\* the first 50 characters of its content and the failure's text, and
\* created + failed = n.
C1_ContinuesPastEveryFailure ==
    BatchAccepted =>
        /\ Len(outcomes) = Len(execs)
        /\ Len(calls) = IF pc = "done" THEN Len(outcomes) ELSE Len(outcomes) + 1
        /\ Len(calls) <= Len(Entries)
        /\ \A i \in 1..Len(calls) :
              /\ calls[i].messages[1].content = Get(Entries[i], "content")
              /\ Len(calls[i].messages) = 1
        /\ \A i \in 1..Len(outcomes) :
              /\ ~outcomes[i].ok => execs[i] = Raised(outcomes[i].exc)
              /\ execs[i].ok => execs[i].value.content = Get(Entries[i], "content")
        /\ pc = "done" =>
              /\ Len(calls) = Len(Entries)
              /\ response.status = 200
              /\ response.body.results = ExpectedResults
              /\ response.body.errors =
                    IF ExpectedErrors = <<>> THEN VNone ELSE VList(ExpectedErrors)
              /\ response.body.created = Len(ExpectedResults)
              /\ response.body.failed = Len(ExpectedErrors)
              /\ response.body.created + response.body.failed = Len(Entries)

\* C1 amended: the batch goes on past every failure that is an Exception, and
\* then reports every entry as C1 states; a failure that is no Exception
\* (cancellation, interrupt, exit) ends the request at that entry: no later
\* entry is submitted and no response is built.
C1_BatchReportsEveryEntry ==
    BatchAccepted =>
        /\ Len(outcomes) = Len(execs)
        /\ Len(calls) = IF pc = "done" THEN Len(outcomes) ELSE Len(outcomes) + 1
        /\ Len(calls) <= Len(Entries)
        /\ \A i \in 1..Len(calls) :
              /\ calls[i].messages[1].content = Get(Entries[i], "content")
              /\ Len(calls[i].messages) = 1
        /\ \A i \in 1..Len(outcomes) :
              /\ ~outcomes[i].ok => execs[i] = Raised(outcomes[i].exc)
              /\ execs[i].ok => execs[i].value.content = Get(Entries[i], "content")
              /\ Uncaught(outcomes[i]) => (i = Len(calls) /\ pc = "done")
        /\ (pc = "done" /\ Aborted) => response.status = 0
        /\ (pc = "done" /\ ~Aborted) =>
              /\ Len(calls) = Len(Entries)
              /\ response.status = 200
              /\ response.body.results = ExpectedResults
              /\ response.body.errors =
                    IF ExpectedErrors = <<>> THEN VNone ELSE VList(ExpectedErrors)
              /\ response.body.created = Len(ExpectedResults)
              /\ response.body.failed = Len(ExpectedErrors)
              /\ response.body.created + response.body.failed = Len(Entries)

\* a batch of two whose first entry, longer than the preview, failed and whose
\* second entry was submitted all the same and succeeded
C1_Witness ==
    /\ endpoint = "batch" /\ pc = "done" /\ response.status = 200
    /\ Len(Entries) = 2 /\ Len(calls) = 2
    /\ ~outcomes[1].ok /\ execs[2].ok
    /\ Len(Get(Entries[1], "content").v) > 50
    /\ response.body.created = 1 /\ response.body.failed = 1
    /\ Len(response.body.errors.v[1].content.v) = 50

SingleEndpoints == {"memory", "zapier", "generic"}

\* C2 as stated: a single-memory request calls the client's add at most once;
\* when that call raises, create_memory raises the same failure, the response is
\* a 500 whose detail is the failure's message, and no second call is made.
C2_EveryRaiseIsServerError ==
    endpoint \in SingleEndpoints =>
        /\ Len(calls) <= 1
        /\ Len(outcomes) <= Len(calls)
        /\ (Len(outcomes) = 1 /\ ~outcomes[1].ok) =>
              /\ pc = "done"
              /\ execs = <<Raised(outcomes[1].exc)>>
              /\ response.status = 500
              /\ response.detail = outcomes[1].exc.msg

\* C2 amended: a single-memory request calls the client's add at most once;
\* when that call raises, create_memory raises the same failure and no second
\* call is made; the response is a 500 whose detail is the failure's message
\* when the failure is an Exception, and no response is built when it is not.
C2_NoRetryAndServerError ==
    endpoint \in SingleEndpoints =>
        /\ Len(calls) <= 1
        /\ Len(outcomes) <= Len(calls)
        /\ (Len(outcomes) = 1 /\ ~outcomes[1].ok) =>
              /\ pc = "done"
              /\ execs = <<Raised(outcomes[1].exc)>>
              /\ IF Uncaught(outcomes[1]) THEN response.status = 0
                 ELSE response.status = 500 /\ response.detail = outcomes[1].exc.msg

\* the client raised on a flexible request and the handler answered 500
C2_Witness ==
    /\ endpoint = "zapier" /\ pc = "done"
    /\ outcomes = <<Raised(Exc("ConnectionError", "network unreachable"))>>
    /\ Len(calls) = 1
    /\ response.status = 500

\* the identifier the specification gives for a result of the client
SpecifiedId(r) ==
    IF r.t = "dict" /\ "id" \in Keys(r) THEN Get(r, "id")
    ELSE IF /\ r.t = "dict"
            /\ Get(r, "results").t = "list"
            /\ Len(Get(r, "results").v) > 0
            /\ Get(r, "results").v[1].t = "dict"
            /\ "id" \in Keys(Get(r, "results").v[1])
         THEN Get(Get(r, "results").v[1], "id")
    ELSE IF r.t = "list" /\ Len(r.v) > 0 /\ r.v[1].t = "dict" /\ "id" \in Keys(r.v[1])
         THEN Get(r.v[1], "id")
    ELSE VNone

\* C3: for every result the client returns, create_memory finds the identifier
\* without raising: the direct id, else the id of the first of results, else the
\* id of the first element of a list, and otherwise none.
C3_ExtractionIsTotal ==
    \A i \in 1..Len(execs) :
        (outcomes[i].ok /\ calls[i].messages[1].content.t = "str") =>
            /\ execs[i].ok
            /\ execs[i].value.memory_id = SpecifiedId(outcomes[i].value)

\* C4: for every JSON body, /webhook/zapier and /webhook/generic reach the call
\* of the client, and answer with an error only when the client raised.
C4_FlexibleNormalizationNeverFails ==
    (endpoint \in {"zapier", "generic"} /\ pc = "done") =>
        /\ Len(calls) = 1
        /\ response.status # 200 => ~outcomes[1].ok

\* the metadata the caller sent with the request that call i is for
CallerMetadata(i) ==
    LET sent == IF endpoint = "batch" THEN Entries[i] ELSE body
    IN IF sent.t = "dict" /\ Get(sent, "metadata").t = "dict" THEN Get(sent, "metadata")
       ELSE VDict(<<>>)

DerivedKeys ==
    {"day", "month", "year", "device", "timestamp", "webhook_received", "source",
     "category", "client", "project_type"}

\* C5: the metadata submitted for a structured request with non-empty content
\* has every derived key and every key of the caller, each key of the caller
\* with the caller's value, also where it is a derived key.
C5_CallerMetadataWins ==
    endpoint \in {"memory", "batch"} =>
        \A i \in 1..Len(calls) :
            calls[i].messages[1].content.v # "" =>
                /\ DerivedKeys \subseteq Keys(calls[i].metadata)
                /\ \A k \in Keys(CallerMetadata(i)) :
                      Get(calls[i].metadata, k) = Get(CallerMetadata(i), k)
                /\ Get(calls[i].metadata, "device") =
                      GetOr(CallerMetadata(i), "device", VStr("webhook_api"))

\* a structured request whose metadata names the derived keys source and day
C5_Witness ==
    /\ endpoint = "memory" /\ Len(calls) = 1
    /\ calls[1].messages[1].content = VStr("hi")
    /\ Get(CallerMetadata(1), "source") = VStr("mine")
    /\ Get(calls[1].metadata, "source") = VStr("mine")
    /\ Get(calls[1].metadata, "day") = VStr("someday")
    /\ Get(calls[1].metadata, "k") = VInt(1)

ZapierSubmitted == endpoint = "zapier" /\ body.t = "dict" /\ Len(calls) = 1

\* the value of the first of the keys that the body has, else the fallback
FirstPresent(ks, fallback) ==
    LET at == {i \in 1..Len(ks) : ks[i] \in Keys(body)}
    IN IF at = {} THEN fallback
       ELSE Get(body, ks[CHOOSE i \in at : \A j \in at : i <= j])

\* the first truthy value among the keys, else the fallback
FirstTruthy(ks, fallback) ==
    LET at == {i \in 1..Len(ks) : Truthy(Get(body, ks[i]))}
    IN IF at = {} THEN fallback
       ELSE Get(body, ks[CHOOSE i \in at : \A j \in at : i <= j])

AliasKeys == {"content", "message", "text", "user_id", "userId", "category"}

\* C6 as stated: the flexible shape takes content, user_id and category from
\* the first key that is present.
C6_FirstPresentKey ==
    ZapierSubmitted =>
        /\ calls[1].messages[1].content =
              FirstPresent(<<"content", "message", "text">>, VStr(Repr(body)))
        /\ calls[1].user_id = FirstPresent(<<"user_id", "userId">>, VStr("quinn_may"))
        /\ Get(calls[1].metadata, "category") = FirstPresent(<<"category">>, VStr("zapier"))
        /\ \A k \in Keys(body) \ AliasKeys : Get(calls[1].metadata, k) = Get(body, k)

\* C6 amended: the flexible shape takes content, user_id and category from the
\* first key whose value is truthy (not null, false, zero or empty), and every
\* top-level key other than the six alias names is a metadata entry, unchanged.
C6_FirstTruthyKey ==
    ZapierSubmitted =>
        /\ calls[1].messages[1].content =
              FirstTruthy(<<"content", "message", "text">>, VStr(Repr(body)))
        /\ calls[1].user_id = FirstTruthy(<<"user_id", "userId">>, VStr("quinn_may"))
        /\ Get(calls[1].metadata, "category") = FirstTruthy(<<"category">>, VStr("zapier"))
        /\ \A k \in Keys(body) \ AliasKeys :
              /\ k \in Keys(calls[1].metadata)
              /\ Get(calls[1].metadata, k) = Get(body, k)

\* {"message": "hi", "userId": "u1", "extra": 1}
C6_Witness ==
    /\ ZapierSubmitted
    /\ body = VDict(<< <<"message", VStr("hi")>>, <<"userId", VStr("u1")>>,
                       <<"extra", VInt(1)>> >>)
    /\ calls[1].messages[1].content = VStr("hi")
    /\ calls[1].user_id = VStr("u1")
    /\ Get(calls[1].metadata, "extra") = VInt(1)
    /\ Get(calls[1].metadata, "category") = VStr("zapier")

\* C7: GET /health always answers 200 with webhook_ready, healthy and connected
\* when the probe returned, degraded and not connected when it raised.
C7_HealthNeverFails ==
    (endpoint = "health" /\ pc = "done") =>
        /\ response.status = 200
        /\ response.body.webhook_ready = TRUE
        /\ response.body.mem0_connected = outcomes[1].ok
        /\ response.body.status = IF outcomes[1].ok THEN "healthy" ELSE "degraded"

\* the probe was cancelled, a failure that is no Exception
C7_Witness ==
    /\ endpoint = "health" /\ pc = "done"
    /\ outcomes = <<Raised(Exc("CancelledError", ""))>>
    /\ response.status = 200
    /\ response.body.status = "degraded"
    /\ response.body.webhook_ready

\* C8: every call of the client's add carries one user message whose content
\* is a non-empty text.
C8_ContentNonEmpty ==
    \A i \in 1..Len(calls) :
        /\ Len(calls[i].messages) = 1
        /\ calls[i].messages[1].role = "user"
        /\ calls[i].messages[1].content.t = "str"
        /\ calls[i].messages[1].content.v # ""

\* C10: when the client's add returned for a structured request, the response
\* of /webhook/memory is a success that echoes the request's user_id.
C10_StoredMeansSuccess ==
    (endpoint = "memory" /\ pc = "done" /\ Len(outcomes) = 1 /\ outcomes[1].ok) =>
        /\ response.status = 200
        /\ response.body.success = TRUE
        /\ response.body.user_id = reqs[1].user_id

\* the hex digests of hmac.new(secret.encode(), payload, hashlib.sha256), as
\* Python computes them
ReferenceDigest(secret, payload) ==
    CASE secret = "k1" /\ payload = <<>> ->
            "e6f06a89ac679df9f3f5774369cac0d555f1963cf3b15c4b7fbf4f7e2c428a91"
      [] secret = "k1" /\ payload = Encode("hi") ->
            "2c8f42b363195f5d1d20414f90ca19211e441d47ea441fb300bef4191c7a2cba"
      [] secret = "k1" /\ payload = Encode(LongText) ->
            "419a9713dbdb7c094091dcbb02d86d6f4f0435f33b785445cfdda364a7cf49fb"
      [] secret = Repeat("abcdefghij", 7) /\ payload = <<>> ->
            "fa6e56c4f53be964525dc0d89eb7f2c0b9ce3cecf358c9bb9931d444826a1767"
      [] secret = Repeat("abcdefghij", 7) /\ payload = Encode("hi") ->
            "4fc885b94f71f800177bb3d3d0e356fb772fda64785e6bebb6657bc7bfb4ca5c"
      [] secret = Repeat("abcdefghij", 7) /\ payload = Encode(LongText) ->
            "ab7f439bc444600d24fb853de9b0ac119e56b0de03e1e6717931b8253fe2cfde"

\* C9: with no secret configured (empty, or the placeholder) every signature
\* verifies; with a secret, a signature verifies exactly when it is the
\* HMAC-SHA256 hex digest of the payload under the secret.
C9_SignatureVerification ==
    verification.called =>
        IF verification.secret \in {"", "your-webhook-secret-here"}
        THEN verification.verified = TRUE
        ELSE verification.verified =
                (verification.signature =
                    ReferenceDigest(verification.secret, verification.payload))

\* a signature that is the digest of another payload is refused, and the
\* placeholder secret accepts it
C9_Witness ==
    /\ verification.called
    /\ verification.secret = "k1"
    /\ verification.payload = Encode("hi")
    /\ verification.signature = ReferenceDigest("k1", <<>>)
    /\ verification.verified = FALSE

====
